---- MODULE Spec2Model ----
(***************************************************************************)
(* K8sQuest mission progression engine (src/engine/engine.py): the         *)
(* progress store, the campaign and world sequencers, the level session    *)
(* loop with its hint tier and attempt counter, and the natural ordering   *)
(* of level directories.                                                   *)
(***************************************************************************)
EXTENDS Integers, Sequences, FiniteSets, TLC

\* Python's None (an unset current_level).
None == "None"

\* The absent progress.json.
NoFile == [missing |-> TRUE]

Min(a, b) == IF a <= b THEN a ELSE b

(***************************************************************************)
(* Bounds of the model.                                                    *)
(***************************************************************************)
\* level sessions started, over all runs of the process
MaxSessions == 2
\* validate actions in one session
MaxAttempts == 2
\* value current_hint_level may reach through hints requests
MaxHintLevel == 4
\* directory entries handed to one sorted() call of the sorting specification
MaxDirEntries == 3
\* lines in the output of one kubectl get of the status poll
MaxLines == 3

(***************************************************************************)
(* Program constants.                                                      *)
(***************************************************************************)
\* min(current_hint_level + 1, 3) on a failed validation
HintCeiling == 3
\* range(1, 4): hint-1.txt .. hint-3.txt
MaxHintFiles == 3
\* completed_count == 10 / 25 / 49 / 50
WorldCompleteCount == 10
HalfwayCount == 25
FinalBossCount == 49
GameCompleteCount == 50
\* lines[:2]: summaries taken from the output of one resource type
MaxPerType == 2
\* len(status_parts) >= 3 and status_parts[:3]: summaries of one status
MaxSummaries == 3

(***************************************************************************)
(* Characters and level names.  A name is a string; Chars spells it, so    *)
(* that the sort key is computed from its characters as re.split does.     *)
(***************************************************************************)
Alphabet ==
    << "-", "0", "1", "2", "3", "4", "5", "6", "7", "8", "9",
       "a", "b", "c", "d", "e", "f", "g", "h", "i", "j", "k", "l", "m",
       "n", "o", "p", "q", "r", "s", "t", "u", "v", "w", "x", "y", "z" >>

\* code point order of the characters used ("-" < digits < letters)
Ord(c) == CHOOSE i \in 1..Len(Alphabet) : Alphabet[i] = c

Digits == {"0", "1", "2", "3", "4", "5", "6", "7", "8", "9"}

DigitVal(c) == Ord(c) - 2

LevelPrefix == << "l", "e", "v", "e", "l", "-" >>

Chars ==
    [ n \in { "level-1-z", "level-2-x", "level-10-y", "level-11-a",
              "level-12-b", "level-21-c", "level-22-d", "level-31-e",
              "level-32-f", "level-41-g", "level-42-h",
              "level-02-x", "level-9-y", "level-100-a", "level-7-old" } |->
        CASE n = "level-1-z"   -> LevelPrefix \o << "1", "-", "z" >>
          [] n = "level-2-x"   -> LevelPrefix \o << "2", "-", "x" >>
          [] n = "level-10-y"  -> LevelPrefix \o << "1", "0", "-", "y" >>
          [] n = "level-11-a"  -> LevelPrefix \o << "1", "1", "-", "a" >>
          [] n = "level-12-b"  -> LevelPrefix \o << "1", "2", "-", "b" >>
          [] n = "level-21-c"  -> LevelPrefix \o << "2", "1", "-", "c" >>
          [] n = "level-22-d"  -> LevelPrefix \o << "2", "2", "-", "d" >>
          [] n = "level-31-e"  -> LevelPrefix \o << "3", "1", "-", "e" >>
          [] n = "level-32-f"  -> LevelPrefix \o << "3", "2", "-", "f" >>
          [] n = "level-41-g"  -> LevelPrefix \o << "4", "1", "-", "g" >>
          [] n = "level-42-h"  -> LevelPrefix \o << "4", "2", "-", "h" >>
          [] n = "level-02-x"  -> LevelPrefix \o << "0", "2", "-", "x" >>
          [] n = "level-9-y"   -> LevelPrefix \o << "9", "-", "y" >>
          [] n = "level-100-a" -> LevelPrefix \o << "1", "0", "0", "-", "a" >>
          [] n = "level-7-old" -> LevelPrefix \o << "7", "-", "o", "l", "d" >> ]

(***************************************************************************)
(* natural_sort_key: re.split(r"(\d+)", name) cuts the name into           *)
(* alternating non-digit and digit runs (the first and last run may be     *)
(* empty); a digit run becomes an int, any other run stays a string.       *)
(***************************************************************************)
RECURSIVE TakeRun(_, _)
\* the longest prefix of s whose characters are digits (d) or are not (~d)
TakeRun(s, d) ==
    IF s = << >> \/ ((Head(s) \in Digits) # d)
    THEN << >>
    ELSE << Head(s) >> \o TakeRun(Tail(s), d)

RECURSIVE ReSplit(_, _)
\* the parts of re.split(r"(\d+)", s); d tells whether a digit run is next
ReSplit(s, d) ==
    LET run  == TakeRun(s, d)
        rest == SubSeq(s, Len(run) + 1, Len(s))
    IN  IF d /\ run = << >>
        THEN << >>
        ELSE << run >> \o ReSplit(rest, ~d)

\* part.isdigit()
IsDigit(part) == part # << >> /\ \A i \in 1..Len(part) : part[i] \in Digits

RECURSIVE ToInt(_)
\* int(part) of a run of decimal digits
ToInt(part) ==
    IF part = << >> THEN 0
    ELSE 10 * ToInt(SubSeq(part, 1, Len(part) - 1)) + DigitVal(part[Len(part)])

\* a key that keeps the whole name as one string
natural_sort_key_plain(name) == << [isnum |-> FALSE, str |-> Chars[name]] >>

natural_sort_key(name) ==
    LET parts == ReSplit(Chars[name], FALSE)
    IN  [ i \in 1..Len(parts) |->
            IF IsDigit(parts[i])
            THEN [isnum |-> TRUE, val |-> ToInt(parts[i])]
            ELSE [isnum |-> FALSE, str |-> parts[i]] ]

RECURSIVE StrLess(_, _)
\* Python's str < str: by code point, a proper prefix first
StrLess(a, b) ==
    IF b = << >> THEN FALSE
    ELSE IF a = << >> THEN TRUE
    ELSE IF Head(a) # Head(b) THEN Ord(Head(a)) < Ord(Head(b))
    ELSE StrLess(Tail(a), Tail(b))

\* x < y for two elements of a key (an int against an int, a str against a str;
\* the parts alternate, so elements at one index have the same type)
ElemLess(x, y) ==
    IF x.isnum /\ y.isnum THEN x.val < y.val
    ELSE IF ~x.isnum /\ ~y.isnum THEN StrLess(x.str, y.str)
    ELSE FALSE

RECURSIVE KeyLess(_, _)
\* Python's list < list: decided by the first differing element, a proper
\* prefix first
KeyLess(k1, k2) ==
    IF k2 = << >> THEN FALSE
    ELSE IF k1 = << >> THEN TRUE
    ELSE IF Head(k1) # Head(k2) THEN ElemLess(Head(k1), Head(k2))
    ELSE KeyLess(Tail(k1), Tail(k2))

RECURSIVE InsertByKey(_, _)
\* x put into the sorted list after every element whose key is not greater
InsertByKey(sorted, x) ==
    IF sorted = << >> THEN << x >>
    ELSE IF KeyLess(natural_sort_key(x), natural_sort_key(Head(sorted)))
         THEN << x >> \o sorted
         ELSE << Head(sorted) >> \o InsertByKey(Tail(sorted), x)

RECURSIVE SortedByKey(_)
\* sorted(dirs, key=natural_sort_key): a stable sort
SortedByKey(dirs) ==
    IF dirs = << >> THEN << >>
    ELSE InsertByKey(SortedByKey(SubSeq(dirs, 1, Len(dirs) - 1)), dirs[Len(dirs)])

(***************************************************************************)
(* The content catalog: the world list of the engine and, for each world,  *)
(* the level directories as iterdir() yields them (in no particular        *)
(* order), the XP of each mission and the hint files authored for it.      *)
(***************************************************************************)
all_worlds ==
    << "world-1-basics", "world-2-deployments", "world-3-networking",
       "world-4-storage", "world-5-security" >>

ListDir ==
    [ w \in {all_worlds[i] : i \in 1..Len(all_worlds)} |->
        CASE w = "world-1-basics"      -> << "level-10-y", "level-2-x", "level-1-z" >>
          [] w = "world-2-deployments" -> << "level-12-b", "level-11-a" >>
          [] w = "world-3-networking"  -> << "level-21-c", "level-22-d" >>
          [] w = "world-4-storage"     -> << "level-32-f", "level-31-e" >>
          [] w = "world-5-security"    -> << "level-41-g", "level-42-h" >> ]

\* world_path.exists()
WorldExists(w) == w \in DOMAIN ListDir

\* the (level_name, world_name) entries of one world's sorted level list
WorldChoices(w, lv) == [ j \in 1..Len(lv) |-> [level |-> lv[j], world |-> w] ]

RECURSIVE CollectChoices(_)
\* play_specific_level: the levels of the worlds from the i-th on, each world's
\* directories sorted, in the order of all_worlds
CollectChoices(i) ==
    IF i > Len(all_worlds) THEN << >>
    ELSE WorldChoices(all_worlds[i], SortedByKey(ListDir[all_worlds[i]]))
         \o CollectChoices(i + 1)

\* mission["xp"]
MissionXp(level) ==
    IF \E i \in 1..Len(ListDir["world-1-basics"]) : ListDir["world-1-basics"][i] = level
    THEN 100 ELSE 150

\* the number of hint-<i>.txt files of the level directory
HintFiles(level) ==
    CASE level = "level-1-z"  -> 1
      [] level = "level-2-x"  -> 0
      [] level = "level-10-y" -> 2
      [] OTHER                -> MaxHintFiles

(***************************************************************************)
(* The progress store.                                                     *)
(***************************************************************************)
DefaultProgress ==
    [ total_xp         |-> 0,
      completed_levels |-> << >>,
      current_world    |-> "world-1-basics",
      current_level    |-> None,
      player_name      |-> "Padawan" ]

\* the keys of the record in the order json.dump writes them
Fields ==
    << "total_xp", "completed_levels", "current_world", "current_level",
       "player_name" >>

\* progress.json after open(progress_file, "w") and the first k key/value
\* chunks of json.dump: the text stops before the closing brace (k = 0 is the
\* empty file that open leaves)
Torn(p, k) == [torn |-> [i \in 1..k |-> p[Fields[i]]]]

\* a progress.json written before current_level was introduced
LegacyFile ==
    [ total_xp         |-> 100,
      completed_levels |-> << "level-1-z" >>,
      current_world    |-> "world-1-basics",
      player_name      |-> "Ada" ]

\* what json.load raises on a text that is not a JSON document; load_progress
\* has no handler for it
JSONDecodeError == [raised |-> "JSONDecodeError"]

\* load_progress: without a file the default record; else json.load of the
\* file, with current_level added when the key is missing
load_progress(file) ==
    IF file = NoFile THEN DefaultProgress
    ELSE IF "torn" \in DOMAIN file THEN JSONDecodeError
    ELSE IF "current_level" \notin DOMAIN file
         THEN [ total_xp         |-> file.total_xp,
                completed_levels |-> file.completed_levels,
                current_world    |-> file.current_world,
                current_level    |-> None,
                player_name      |-> file.player_name ]
    ELSE file

\* a save that leaves total_xp out
save_progress_without_xp(p) == [p EXCEPT !.total_xp = 0]

\* save_progress, from open to close: the file holds the whole record
save_progress(p) == p

\* progress_tracker.py, load_progress: json.load of the file, or a record of
\* its own when there is no file
tracker_load_progress(file) ==
    IF file = NoFile THEN [completed |-> << >>, total_xp |-> 0]
    ELSE IF "torn" \in DOMAIN file THEN JSONDecodeError
    ELSE file

\* progress_tracker.py, main: completed_levels = progress.get("completed", [])
tracker_completed_levels(file) ==
    LET tracked == tracker_load_progress(file)
    IN  IF "completed" \in DOMAIN tracked THEN tracked.completed ELSE << >>

\* progress_tracker.py, main: the number after "Levels Completed:"
tracker_levels_completed(file) == Len(tracker_completed_levels(file))

Contains(seq, x) == \E i \in 1..Len(seq) : seq[i] = x

Count(seq, x) == Cardinality({ i \in 1..Len(seq) : seq[i] = x })

(***************************************************************************)
(* The state of one engine process and of the progress file.               *)
(***************************************************************************)
VARIABLES
    progress,            \* self.progress, the in-memory record
    disk,                \* the content of progress.json, or NoFile
    RETRO_UI_ENABLED,    \* whether retro_ui could be imported
    pc,                  \* where the process is
    entry,               \* how main entered the campaign in this run
    mode,                \* the caller of play_level: "world" or "specific"
    world_index,         \* main's position in all_worlds (0-based)
    world_name,          \* the world of play_world or of the selected level
    levels,              \* play_world's sorted level list
    start_index,         \* play_world's resume index (0-based)
    level_index,         \* play_world's position in levels (0-based)
    level_choices,       \* play_specific_level's list of all levels
    level_name,          \* the level of the session
    current_hint_level,  \* play_level's hint tier
    attempts,            \* play_level's attempt counter
    celebrated,          \* the milestone fired by the latest validation pass
    shown,               \* what the latest action displayed
    exit_by,             \* how the process ended
    sessions,            \* level sessions started in this run
    crash,               \* the session the latest crash interrupted
    dirs,                \* the directory listing handed to sorted()
    returned,            \* the value play_level returned to its caller
    previous,            \* the content of progress.json when a save began
    resource_index,      \* get_resource_status: resource types queried so far
    status_parts,        \* get_resource_status: the summaries collected
    status_table,        \* monitor_status: the rows added, and how many of
                         \* them are "Timeout" or "Checking..."
    pending_input        \* what the player typed and no prompt has read yet

vars ==
    << progress, disk, RETRO_UI_ENABLED, pc, entry, mode, world_index,
       world_name, levels, start_index, level_index, level_choices,
       level_name, current_hint_level, attempts, celebrated, shown, exit_by,
       sessions, crash, dirs, returned, previous, resource_index,
       status_parts, status_table, pending_input >>

\* the progress record and its file
store == << progress, disk >>

\* the local variables of get_resource_status
pollFrame == << resource_index, status_parts >>

\* the status table of monitor_status and the terminal's unread input
monitorFrame == << status_table, pending_input >>

\* an empty status table
NoRows == [rows |-> 0, neutral |-> 0]

\* what no step of a run changes, the crash history, the file a save found and
\* the status poll, which the steps of the campaign do not follow
fixed == << RETRO_UI_ENABLED, crash, previous, pollFrame, monitorFrame >>

\* the local variables of main and of play_specific_level
mainFrame == << entry, mode, world_index, level_choices >>

\* the local variables of play_world
worldFrame == << world_name, dirs, levels, start_index, level_index >>

\* the local variables of play_level, its output and its return value
levelFrame ==
    << level_name, current_hint_level, attempts, celebrated, shown, returned >>

SessionPcs == {"interacting", "confirm_next", "confirm_retry", "confirm_skip"}

\* a line or panel written to the console
Show(kind, n) == [kind |-> kind, n |-> n]

NoCrash ==
    [level |-> None, world |-> None, completed |-> FALSE, resolved |-> FALSE,
     sessions |-> 0]

(***************************************************************************)
(* The progress files a run may start from.                                *)
(***************************************************************************)
\* the levels of the campaign in the order a player meets them
CampaignOrder ==
    << "level-1-z", "level-2-x", "level-10-y", "level-11-a", "level-12-b",
       "level-21-c", "level-22-d", "level-31-e", "level-32-f", "level-41-g",
       "level-42-h" >>

\* the first n levels of the campaign, in order
FirstLevels(n) == [ i \in 1..n |-> CampaignOrder[i] ]

RECURSIVE SumXp(_)
SumXp(seq) == IF seq = << >> THEN 0 ELSE MissionXp(Head(seq)) + SumXp(Tail(seq))

\* a progress file of a player who completed the first n levels and whose
\* position is the given world and level
File(n, world, level) ==
    [ total_xp         |-> SumXp(FirstLevels(n)),
      completed_levels |-> FirstLevels(n),
      current_world    |-> world,
      current_level    |-> level,
      player_name      |-> "Ada" ]

InitFiles ==
    { File(0, "world-1-basics", None),
      File(1, "world-1-basics", "level-2-x"),
      File(2, "world-1-basics", "level-2-x"),
      File(3, "world-1-basics", "level-10-y"),
      File(1, "world-1-basics", "level-7-old"),
      File(2, "world-9-retired", "level-2-x"),
      File(WorldCompleteCount - 1, "world-4-storage", "level-32-f"),
      File(WorldCompleteCount, "world-5-security", "level-41-g") }

Init ==
    /\ disk \in InitFiles \cup {NoFile, LegacyFile}
    /\ progress = load_progress(disk)
    /\ RETRO_UI_ENABLED \in BOOLEAN
    /\ pc = "main"
    /\ entry = "none"
    /\ mode = "world"
    /\ world_index = 0
    /\ world_name = None
    /\ levels = << >>
    /\ start_index = 0
    /\ level_index = 0
    /\ level_choices = << >>
    /\ level_name = None
    /\ current_hint_level = -1
    /\ attempts = -1
    /\ celebrated = "none"
    /\ shown = Show("welcome", 0)
    /\ exit_by = "running"
    /\ sessions = 0
    /\ crash = NoCrash
    /\ dirs = << >>
    /\ returned = "none"
    /\ previous = NoFile
    /\ resource_index = 0
    /\ status_parts = << >>
    /\ status_table = NoRows
    /\ pending_input = "none"

(***************************************************************************)
(* The pure steps of the engine.                                           *)
(***************************************************************************)
\* Python's truth value of progress.get("current_level")
Truthy(x) == x # None /\ x # ""

\* has_progress of main
has_progress(p) == Len(p.completed_levels) > 0 \/ Truthy(p.current_level)

\* a start that takes the last world when the stored world is unknown
StartWorldIndex_last_world(p) ==
    IF \E i \in 1..Len(all_worlds) : all_worlds[i] = p.current_world
    THEN (CHOOSE i \in 1..Len(all_worlds) : all_worlds[i] = p.current_world) - 1
    ELSE Len(all_worlds) - 1

\* main, choice "1": the index of current_world in all_worlds, else 0
StartWorldIndex(p) ==
    IF \E i \in 1..Len(all_worlds) : all_worlds[i] = p.current_world
    THEN (CHOOSE i \in 1..Len(all_worlds) : all_worlds[i] = p.current_world) - 1
    ELSE 0

\* a resume index that ignores the stored level
ResumeIndex_from_start(p, lv) == 0

\* a resume index that does not step over a completed level
ResumeIndex_at_current(p, lv) ==
    IF Truthy(p.current_level) /\ Contains(lv, p.current_level)
    THEN (CHOOSE k \in 1..Len(lv) : lv[k] = p.current_level) - 1
    ELSE 0

\* a resume index that keeps the last loop index when the level is not found
ResumeIndex_last_seen(p, lv) ==
    IF Truthy(p.current_level) /\ Contains(lv, p.current_level)
    THEN LET i == (CHOOSE k \in 1..Len(lv) : lv[k] = p.current_level) - 1
         IN  IF Contains(p.completed_levels, p.current_level) THEN i + 1 ELSE i
    ELSE Len(lv) - 1

\* play_world: where to resume in the sorted level list lv (0-based)
ResumeIndex(p, lv) ==
    IF Truthy(p.current_level) /\ Contains(lv, p.current_level)
    THEN LET i == (CHOOSE k \in 1..Len(lv) :
                      /\ lv[k] = p.current_level
                      /\ \A j \in 1..(k - 1) : lv[j] # p.current_level) - 1
         IN  IF Contains(p.completed_levels, p.current_level) THEN i + 1 ELSE i
    ELSE 0

\* a position that names the level and keeps the old world
SetPosition_level_only(p, world, level) == [p EXCEPT !.current_level = level]

\* a position that is not set before the session
SetPosition_not_set(p, world, level) == p

\* play_world and play_specific_level: the position is set before the session
SetPosition(p, world, level) ==
    [p EXCEPT !.current_level = level, !.current_world = world]

\* a reset that keeps the stored level
ResetProgress_keeps_level(p) ==
    [p EXCEPT !.completed_levels = << >>, !.total_xp = 0]

\* main, choice "3": the reset of the record
ResetProgress(p) ==
    [p EXCEPT !.current_level = None, !.completed_levels = << >>, !.total_xp = 0]

\* a pass that stores the XP of the mission instead of adding it
AwardXp_replace(p, level) == [p EXCEPT !.total_xp = MissionXp(level)]

\* play_level, a validation pass: self.progress["total_xp"] += xp_earned
AwardXp(p, level) == [p EXCEPT !.total_xp = @ + MissionXp(level)]

\* a completion that appends without looking
MarkCompleted_always(p, level) == [p EXCEPT !.completed_levels = Append(@, level)]

\* a completion that looks only at the last entry of the list
MarkCompleted_unless_last(p, level) ==
    IF p.completed_levels # << >>
       /\ p.completed_levels[Len(p.completed_levels)] = level
    THEN p
    ELSE [p EXCEPT !.completed_levels = Append(@, level)]

\* play_level, a validation pass: append the level if it is not in the list
MarkCompleted(p, level) ==
    IF Contains(p.completed_levels, level)
    THEN p
    ELSE [p EXCEPT !.completed_levels = Append(@, level)]

\* play_level, a validation pass: the milestone of the completed count
Milestone(retro, completed_count) ==
    IF ~retro THEN "none"
    ELSE IF completed_count = WorldCompleteCount THEN "world_complete"
    ELSE IF completed_count = HalfwayCount THEN "halfway"
    ELSE IF completed_count = FinalBossCount THEN "final_boss"
    ELSE IF completed_count = GameCompleteCount THEN "game_complete"
    ELSE "none"

\* a failed validation that unlocks without the ceiling
FailedHintLevel_uncapped(tier) == tier + 1

\* play_level, a failed validation: the next hint is unlocked
FailedHintLevel(tier) == Min(tier + 1, HintCeiling)

\* play_level, hints: the next hint level
RequestedHintLevel(tier) == tier + 1

\* show_progressive_hints(level_path, hint_level, show_all=False)
show_progressive_hints(level, hint_level) ==
    IF HintFiles(level) = 0 THEN Show("no_hints", 0)
    ELSE IF hint_level <= HintFiles(level) THEN Show("hint", hint_level)
    ELSE Show("all_unlocked", Min(hint_level, HintFiles(level)))

(***************************************************************************)
(* main.                                                                   *)
(***************************************************************************)
\* main up to the menu: the first-time name setup, then the resume check
MainStart ==
    /\ pc = "main"
    /\ IF progress.player_name = "Padawan"
       THEN \E name \in {"Ada", "Padawan"} :
               /\ progress' = [progress EXCEPT !.player_name = name]
               /\ disk' = save_progress(progress')
       ELSE UNCHANGED store
    /\ pc' = IF has_progress(progress) THEN "menu" ELSE "ready"
    /\ UNCHANGED << fixed, mainFrame, worldFrame, levelFrame, exit_by, sessions >>

\* choice "1": continue from where you left off
MenuContinue ==
    /\ pc = "menu"
    /\ entry' = "continue"
    /\ world_index' = StartWorldIndex(progress)
    /\ pc' = "play_world"
    /\ UNCHANGED << store, fixed, mode, level_choices, worldFrame, levelFrame, exit_by,
                    sessions >>

\* choice "2": play_specific_level is entered and lists the levels
MenuSpecific ==
    /\ pc = "menu"
    /\ entry' = "specific"
    /\ level_choices' = CollectChoices(1)
    /\ pc' = "select"
    /\ UNCHANGED << store, fixed, mode, world_index, worldFrame, levelFrame, exit_by,
                    sessions >>

\* choice "3": start from the beginning
MenuRestart ==
    /\ pc = "menu"
    /\ progress' = ResetProgress(progress)
    /\ disk' = save_progress(progress')
    /\ entry' = "restart"
    /\ world_index' = 0
    /\ pc' = "play_world"
    /\ UNCHANGED << fixed, mode, level_choices, worldFrame, levelFrame, exit_by, sessions >>

\* choice "q"
MenuQuit ==
    /\ pc = "menu"
    /\ pc' = "exited"
    /\ exit_by' = "end"
    /\ UNCHANGED << store, fixed, mainFrame, worldFrame, levelFrame, sessions >>

\* "Ready to start your training?" of a run without progress
Ready ==
    /\ pc = "ready"
    /\ \E yes \in BOOLEAN :
          IF yes
          THEN /\ entry' = "fresh"
               /\ world_index' = 0
               /\ pc' = "play_world"
               /\ UNCHANGED exit_by
          ELSE /\ pc' = "exited"
               /\ exit_by' = "end"
               /\ UNCHANGED << entry, world_index >>
    /\ UNCHANGED << store, fixed, mode, level_choices, worldFrame, levelFrame, sessions >>

(***************************************************************************)
(* play_world and the for loops of main and play_specific_level over it.   *)
(***************************************************************************)
\* what a subprocess.run call of deploy_mission or validate_mission may meet:
\* the command exits with 0 or with another code, the command cannot be
\* launched (subprocess.run raises FileNotFoundError), or it never exits
ProcessOutcomes == {"zero", "nonzero", "launch_failure", "never_exits"}

\* the timeout= argument of the subprocess.run calls: none is passed
SubprocessTimeout == None

\* an exception that no handler of the engine catches leaves main: traceback
Uncaught(kind) ==
    /\ current_hint_level' = -1
    /\ attempts' = -1
    /\ celebrated' = "none"
    /\ returned' = "none"
    /\ shown' = Show("traceback", 0)
    /\ pc' = "exited"
    /\ exit_by' = kind

\* subprocess.run waits for a command that never exits
Waiting(where) ==
    /\ SubprocessTimeout = None
    /\ celebrated' = "none"
    /\ returned' = "none"
    /\ shown' = Show(where, 0)
    /\ pc' = where
    /\ UNCHANGED exit_by

\* deploy_mission: the namespace is reset, then setup.sh is run or broken.yaml
\* is applied; a non-zero exit prints a warning
deploy_mission(outcome) ==
    CASE outcome = "zero" ->
            /\ shown' = Show("deployed", 0)
            /\ pc' = "interacting"
            /\ UNCHANGED exit_by
      [] outcome = "nonzero" ->
            /\ shown' = Show("deployed_with_warning", 0)
            /\ pc' = "interacting"
            /\ UNCHANGED exit_by
      [] outcome = "launch_failure" ->
            /\ shown' = Show("traceback", 0)
            /\ pc' = "exited"
            /\ exit_by' = "deploy_error"
      [] outcome = "never_exits" ->
            /\ SubprocessTimeout = None
            /\ shown' = Show("deploying", 0)
            /\ pc' = "deploying"
            /\ UNCHANGED exit_by

\* a play_level whose hint level starts at 1
EnterLevel_first_hint_unlocked(level) ==
    /\ sessions < MaxSessions
    /\ sessions' = sessions + 1
    /\ level_name' = level
    /\ celebrated' = "none"
    /\ returned' = "none"
    /\ \E outcome \in ProcessOutcomes :
          /\ deploy_mission(outcome)
          /\ IF outcome \in {"zero", "nonzero"}
             THEN current_hint_level' = 1 /\ attempts' = 0
             ELSE current_hint_level' = -1 /\ attempts' = -1

\* play_level is entered: the briefing, then the deployment; when it returns
\* the hint level and the attempt counter start at 0 and the action prompt is
\* offered
EnterLevel(level) ==
    /\ sessions < MaxSessions
    /\ sessions' = sessions + 1
    /\ level_name' = level
    /\ celebrated' = "none"
    /\ returned' = "none"
    /\ \E outcome \in ProcessOutcomes :
          /\ deploy_mission(outcome)
          /\ IF outcome \in {"zero", "nonzero"}
             THEN current_hint_level' = 0 /\ attempts' = 0
             ELSE current_hint_level' = -1 /\ attempts' = -1

\* play_level is left: its hint level and attempt counter are gone (-1)
LeaveLevel ==
    /\ current_hint_level' = -1
    /\ attempts' = -1
    /\ celebrated' = "none"
    /\ shown' = Show("left", 0)
    /\ UNCHANGED level_name

\* play_world up to its for loop: the sorted level list and the resume index
PlayWorld ==
    /\ pc = "play_world"
    /\ LET w == all_worlds[world_index + 1]
       IN  IF ~WorldExists(w)
           THEN /\ pc' = "exited"
                /\ exit_by' = "end"
                /\ UNCHANGED worldFrame
           ELSE /\ world_name' = w
                /\ dirs' = ListDir[w]
                /\ levels' = SortedByKey(dirs')
                /\ start_index' = ResumeIndex(progress, levels')
                /\ level_index' = start_index'
                /\ pc' = "level_loop"
                /\ UNCHANGED exit_by
    /\ mode' = "world"
    /\ UNCHANGED << store, fixed, entry, world_index, level_choices, levelFrame,
                    sessions >>

\* one iteration of play_world's loop: the position is saved, the level starts
StartLevel ==
    /\ pc = "level_loop"
    /\ level_index < Len(levels)
    /\ progress' = SetPosition(progress, world_name, levels[level_index + 1])
    /\ disk' = save_progress(progress')
    /\ EnterLevel(levels[level_index + 1])
    /\ UNCHANGED << fixed, mainFrame, worldFrame >>

\* play_world's loop is over: it returns True and the caller's loop goes on
\* to the next world, or ends after the last one
WorldComplete ==
    /\ pc = "level_loop"
    /\ level_index >= Len(levels)
    /\ IF world_index + 1 < Len(all_worlds)
       THEN /\ world_index' = world_index + 1
            /\ pc' = "play_world"
            /\ UNCHANGED exit_by
       ELSE /\ pc' = "exited"
            /\ exit_by' = "end"
            /\ UNCHANGED world_index
    /\ UNCHANGED << store, fixed, entry, mode, level_choices, worldFrame, levelFrame,
                    sessions >>

\* a loop of play_world that stays at its level after play_level returned True
LevelReturns_no_advance(ret) ==
    /\ LeaveLevel
    /\ returned' = IF ret THEN "True" ELSE "False"
    /\ IF mode = "specific"
       THEN /\ pc' = "post_level"
            /\ UNCHANGED << level_index, exit_by >>
       ELSE IF ret
       THEN /\ pc' = "level_loop"
            /\ UNCHANGED << level_index, exit_by >>
       ELSE /\ pc' = "exited"
            /\ exit_by' = "end"
            /\ UNCHANGED level_index
    /\ UNCHANGED << world_name, dirs, levels, start_index >>

\* a play_world that reports its world as complete when play_level returned
\* False, so that the caller's loop goes on to the next world
LevelReturns_world_goes_on(ret) ==
    /\ LeaveLevel
    /\ returned' = IF ret THEN "True" ELSE "False"
    /\ IF mode = "specific"
       THEN /\ pc' = "post_level"
            /\ UNCHANGED << level_index, exit_by >>
       ELSE IF ret
       THEN /\ pc' = "level_loop"
            /\ level_index' = level_index + 1
            /\ UNCHANGED exit_by
       ELSE /\ pc' = "level_loop"
            /\ level_index' = Len(levels)
            /\ UNCHANGED exit_by
    /\ UNCHANGED << world_name, dirs, levels, start_index >>

\* play_level returns ret to its caller: play_world goes on to the next level
\* on True and returns False on False, which ends the caller's loop and the
\* process; play_specific_level ignores the value and shows its menu
LevelReturns(ret) ==
    /\ LeaveLevel
    /\ returned' = IF ret THEN "True" ELSE "False"
    /\ IF mode = "specific"
       THEN /\ pc' = "post_level"
            /\ UNCHANGED << level_index, exit_by >>
       ELSE IF ret
       THEN /\ pc' = "level_loop"
            /\ level_index' = level_index + 1
            /\ UNCHANGED exit_by
       ELSE /\ pc' = "exited"
            /\ exit_by' = "end"
            /\ UNCHANGED level_index
    /\ UNCHANGED << world_name, dirs, levels, start_index >>

\* a prompt inside play_level is answered and the action prompt is offered again
BackToPrompt ==
    /\ pc' = "interacting"
    /\ UNCHANGED << worldFrame, levelFrame, exit_by >>

(***************************************************************************)
(* play_level: the action prompt and its actions.                          *)
(***************************************************************************)
\* hints: the next hint level is unlocked and shown
Hints ==
    /\ pc = "interacting"
    /\ current_hint_level < MaxHintLevel
    /\ current_hint_level' = RequestedHintLevel(current_hint_level)
    /\ shown' = show_progressive_hints(level_name, current_hint_level')
    /\ UNCHANGED << store, fixed, pc, mainFrame, worldFrame, level_name, attempts,
                    celebrated, returned, exit_by, sessions >>

\* a check that counts as an attempt
Check_counts_attempt ==
    /\ pc = "interacting"
    /\ attempts < MaxAttempts
    /\ attempts' = attempts + 1
    /\ shown' = Show("status", 0)
    /\ UNCHANGED << store, fixed, pc, mainFrame, worldFrame, level_name,
                    current_hint_level, celebrated, returned, exit_by, sessions >>

\* check: monitor_status polls the cluster ten times and shows each status;
\* get_resource_status turns every failure of its queries into a text
Check ==
    /\ pc = "interacting"
    /\ shown' = Show("status", 0)
    /\ UNCHANGED << store, fixed, pc, mainFrame, worldFrame, level_name,
                    current_hint_level, attempts, celebrated, returned, exit_by,
                    sessions >>

\* guide: show_step_by_step_guide prints the guide of the level, or that
\* there is none
Guide ==
    /\ pc = "interacting"
    /\ shown' = Show("guide", 0)
    /\ UNCHANGED << store, fixed, pc, mainFrame, worldFrame, level_name,
                    current_hint_level, attempts, celebrated, returned, exit_by,
                    sessions >>

\* solution: show_solution_file prints solution.yaml, or that there is none
Solution ==
    /\ pc = "interacting"
    /\ shown' = Show("solution", 0)
    /\ UNCHANGED << store, fixed, pc, mainFrame, worldFrame, level_name,
                    current_hint_level, attempts, celebrated, returned, exit_by,
                    sessions >>

\* validate, the script exits 0: XP, completion, save, milestone, then the
\* question whether to go on
ValidatePass ==
    /\ pc = "interacting"
    /\ attempts < MaxAttempts
    /\ attempts' = attempts + 1
    /\ progress' = MarkCompleted(AwardXp(progress, level_name), level_name)
    /\ disk' = save_progress(progress')
    /\ celebrated' = Milestone(RETRO_UI_ENABLED, Len(progress'.completed_levels))
    /\ shown' = Show("mission_complete", 0)
    /\ pc' = "confirm_next"
    /\ UNCHANGED << fixed, mainFrame, worldFrame, level_name, current_hint_level,
                    returned, exit_by, sessions >>

\* a failed validation that is not counted as an attempt
ValidateFail_uncounted ==
    /\ pc = "interacting"
    /\ attempts < MaxAttempts
    /\ current_hint_level' = FailedHintLevel(current_hint_level)
    /\ shown' = Show("not_quite", 0)
    /\ pc' = "confirm_retry"
    /\ UNCHANGED << store, fixed, mainFrame, worldFrame, level_name, attempts,
                    celebrated, returned, exit_by, sessions >>

\* validate, the script exits non-zero: the next hint is unlocked, then the
\* question whether to try again
ValidateFail ==
    /\ pc = "interacting"
    /\ attempts < MaxAttempts
    /\ attempts' = attempts + 1
    /\ current_hint_level' = FailedHintLevel(current_hint_level)
    /\ shown' = Show("not_quite", 0)
    /\ pc' = "confirm_retry"
    /\ UNCHANGED << store, fixed, mainFrame, worldFrame, level_name, celebrated,
                    returned, exit_by, sessions >>

\* validate, the script cannot be launched: subprocess.run raises, nothing
\* catches it and the process ends with a traceback
ValidateLaunchFailure ==
    /\ pc = "interacting"
    /\ attempts < MaxAttempts
    /\ Uncaught("validate_error")
    /\ UNCHANGED << store, fixed, mainFrame, worldFrame, level_name, sessions >>

\* validate, the script never exits: subprocess.run does not return
ValidateNeverExits ==
    /\ pc = "interacting"
    /\ attempts < MaxAttempts
    /\ attempts' = attempts + 1
    /\ Waiting("validating")
    /\ UNCHANGED << store, fixed, mainFrame, worldFrame, level_name,
                    current_hint_level, sessions >>

\* "Ready for the next challenge?": play_level returns the answer
ConfirmNext ==
    /\ pc = "confirm_next"
    /\ \E yes \in BOOLEAN : LevelReturns(yes)
    /\ UNCHANGED << store, fixed, mainFrame, sessions >>

\* "Try again?": yes goes back to the action prompt, no returns False
ConfirmRetry ==
    /\ pc = "confirm_retry"
    /\ \E yes \in BOOLEAN : IF yes THEN BackToPrompt ELSE LevelReturns(FALSE)
    /\ UNCHANGED << store, fixed, mainFrame, sessions >>

\* skip: the confirmation is asked
Skip ==
    /\ pc = "interacting"
    /\ pc' = "confirm_skip"
    /\ UNCHANGED << store, fixed, mainFrame, worldFrame, levelFrame, exit_by,
                    sessions >>

\* a confirmed skip that marks the level as completed
ConfirmSkip_marks_completed ==
    /\ pc = "confirm_skip"
    /\ \E yes \in BOOLEAN :
          IF yes
          THEN /\ LevelReturns(TRUE)
               /\ progress' = MarkCompleted(progress, level_name)
               /\ disk' = save_progress(progress')
          ELSE BackToPrompt /\ UNCHANGED store
    /\ UNCHANGED << fixed, mainFrame, sessions >>

\* "Skip this level?": yes returns True, no goes back to the action prompt
ConfirmSkip ==
    /\ pc = "confirm_skip"
    /\ \E yes \in BOOLEAN : IF yes THEN LevelReturns(TRUE) ELSE BackToPrompt
    /\ UNCHANGED << store, fixed, mainFrame, sessions >>

\* the exit status of the process: sys.exit(0) of quit and of the interrupt
\* handler, 0 at the end of main, 1 after an uncaught exception
ExitStatus(how) == IF how \in {"quit", "interrupt", "end"} THEN 0 ELSE 1

\* a quit that ends the level session only
Quit_ends_level_only ==
    /\ pc = "interacting"
    /\ LeaveLevel
    /\ pc' = IF mode = "specific" THEN "post_level" ELSE "level_loop"
    /\ exit_by' = "quit"
    /\ UNCHANGED << store, fixed, mainFrame, worldFrame, returned, sessions >>

\* quit: sys.exit(0)
Quit ==
    /\ pc = "interacting"
    /\ LeaveLevel
    /\ UNCHANGED returned
    /\ pc' = "exited"
    /\ exit_by' = "quit"
    /\ UNCHANGED << store, fixed, mainFrame, worldFrame, sessions >>

(***************************************************************************)
(* play_specific_level.                                                    *)
(***************************************************************************)
\* a level number is entered: the position is saved, the level starts
SelectLevel ==
    /\ pc = "select"
    /\ \E n \in 1..Len(level_choices) :
          /\ world_name' = level_choices[n].world
          /\ progress' = SetPosition(progress, level_choices[n].world,
                                     level_choices[n].level)
          /\ disk' = save_progress(progress')
          /\ EnterLevel(level_choices[n].level)
    /\ mode' = "specific"
    /\ UNCHANGED << fixed, entry, world_index, level_choices, dirs, levels,
                    start_index, level_index >>

\* "q": back to main, which ends
SelectQuit ==
    /\ pc = "select"
    /\ pc' = "exited"
    /\ exit_by' = "end"
    /\ UNCHANGED << store, fixed, mainFrame, worldFrame, levelFrame, sessions >>

\* the menu after the level: another level, continue from this world, or quit
PostLevel ==
    /\ pc = "post_level"
    /\ \E next_choice \in {"1", "2", "q"} :
          CASE next_choice = "1" ->
                  /\ level_choices' = CollectChoices(1)
                  /\ pc' = "select"
                  /\ UNCHANGED << world_index, exit_by >>
            [] next_choice = "2" ->
                  /\ world_index' =
                        (CHOOSE i \in 1..Len(all_worlds) : all_worlds[i] = world_name) - 1
                  /\ pc' = "play_world"
                  /\ UNCHANGED << level_choices, exit_by >>
            [] next_choice = "q" ->
                  /\ pc' = "exited"
                  /\ exit_by' = "end"
                  /\ UNCHANGED << level_choices, world_index >>
    /\ returned' = "none"
    /\ UNCHANGED << store, fixed, entry, mode, worldFrame, level_name,
                    current_hint_level, attempts, celebrated, shown, sessions >>

(***************************************************************************)
(* The process is killed inside a level session and started again: the     *)
(* memory is lost, the progress file is loaded.                            *)
(***************************************************************************)
Crash ==
    /\ pc \in SessionPcs
    /\ crash' = [ level     |-> level_name,
                  world     |-> world_name,
                  completed |-> Contains(progress.completed_levels, level_name),
                  resolved  |-> pc = "confirm_next",
                  sessions  |-> sessions ]
    /\ progress' = load_progress(disk)
    /\ pc' = "main"
    /\ entry' = "none"
    /\ mode' = "world"
    /\ world_index' = 0
    /\ world_name' = None
    /\ levels' = << >>
    /\ start_index' = 0
    /\ level_index' = 0
    /\ level_choices' = << >>
    /\ level_name' = None
    /\ current_hint_level' = -1
    /\ attempts' = -1
    /\ celebrated' = "none"
    /\ shown' = Show("welcome", 0)
    /\ dirs' = << >>
    /\ returned' = "none"
    /\ UNCHANGED << disk, RETRO_UI_ENABLED, previous, pollFrame, monitorFrame,
                    exit_by, sessions >>

Next ==
    \/ MainStart
    \/ MenuContinue
    \/ MenuSpecific
    \/ MenuRestart
    \/ MenuQuit
    \/ Ready
    \/ PlayWorld
    \/ StartLevel
    \/ WorldComplete
    \/ Check
    \/ Guide
    \/ Solution
    \/ Hints
    \/ ValidatePass
    \/ ValidateFail
    \/ ValidateLaunchFailure
    \/ ValidateNeverExits
    \/ ConfirmNext
    \/ ConfirmRetry
    \/ Skip
    \/ ConfirmSkip
    \/ Quit
    \/ SelectLevel
    \/ SelectQuit
    \/ PostLevel

Spec == Init /\ [][Next]_vars

\* the steps of play_level's loop once the mission is deployed
PlayLevelNext ==
    \/ Check
    \/ Guide
    \/ Solution
    \/ Hints
    \/ ValidatePass
    \/ ValidateFail
    \/ ValidateLaunchFailure
    \/ ValidateNeverExits
    \/ ConfirmNext
    \/ ConfirmRetry
    \/ Skip
    \/ ConfirmSkip
    \/ Quit

\* inside a level session the engine goes on whenever it has a step to take:
\* the player answers every prompt and a handler that can return does
SpecFair == Spec /\ WF_vars(PlayLevelNext)

NextCrash == Next \/ Crash

SpecCrash == Init /\ [][NextCrash]_vars

(***************************************************************************)
(* Ctrl-C: KeyboardInterrupt is raised where the process is, leaves main   *)
(* and is caught by the __main__ block, which prints "Game interrupted.    *)
(* Progress saved!" and calls sys.exit(0); it does not call save_progress. *)
(***************************************************************************)
\* the __main__ handler of KeyboardInterrupt
InterruptExit ==
    /\ current_hint_level' = -1
    /\ attempts' = -1
    /\ celebrated' = "none"
    /\ returned' = "none"
    /\ shown' = Show("interrupted", 0)
    /\ pc' = "exited"
    /\ exit_by' = "interrupt"

\* the interrupt arrives while the process waits at a prompt or for a command
Interrupt ==
    /\ pc # "exited"
    /\ InterruptExit
    /\ UNCHANGED << store, fixed, mainFrame, worldFrame, level_name, sessions >>

\* the interrupt arrives inside a validation pass, after the XP increment and
\* before or after the level is appended, in either case before save_progress
ValidatePassInterrupted ==
    /\ pc = "interacting"
    /\ attempts < MaxAttempts
    /\ \E appended \in BOOLEAN :
          progress' = IF appended
                      THEN MarkCompleted(AwardXp(progress, level_name), level_name)
                      ELSE AwardXp(progress, level_name)
    /\ InterruptExit
    /\ UNCHANGED << disk, fixed, mainFrame, worldFrame, level_name, sessions >>

NextInterrupt == Next \/ Interrupt \/ ValidatePassInterrupted

SpecInterrupt == Init /\ [][NextInterrupt]_vars

(***************************************************************************)
(* The ordering of level directories on its own: any listing of up to      *)
(* MaxDirEntries distinct directory names is sorted.                       *)
(***************************************************************************)
DirNames == DOMAIN Chars

DirListings ==
    UNION { { d \in [1..n -> DirNames] : \A i, j \in 1..n : i # j => d[i] # d[j] }
            : n \in 0..MaxDirEntries }

SortInit ==
    /\ dirs \in DirListings
    /\ levels = << >>
    /\ pc = "listed"
    /\ disk = NoFile
    /\ progress = load_progress(disk)
    /\ RETRO_UI_ENABLED = TRUE
    /\ entry = "none"
    /\ mode = "world"
    /\ world_index = 0
    /\ world_name = None
    /\ start_index = 0
    /\ level_index = 0
    /\ level_choices = << >>
    /\ level_name = None
    /\ current_hint_level = -1
    /\ attempts = -1
    /\ celebrated = "none"
    /\ shown = Show("welcome", 0)
    /\ exit_by = "running"
    /\ sessions = 0
    /\ crash = NoCrash
    /\ returned = "none"
    /\ previous = NoFile
    /\ resource_index = 0
    /\ status_parts = << >>
    /\ status_table = NoRows
    /\ pending_input = "none"

\* levels = sorted(dirs, key=natural_sort_key)
SortLevels ==
    /\ pc = "listed"
    /\ levels' = SortedByKey(dirs)
    /\ pc' = "sorted"
    /\ UNCHANGED << store, fixed, mainFrame, world_name, dirs, start_index,
                    level_index, levelFrame, exit_by, sessions >>

SortNext == SortLevels

SortSpec == SortInit /\ [][SortNext]_vars

(***************************************************************************)
(* The progress store on its own: a handler changes the record and calls   *)
(* save_progress, which opens the file for writing (the file is empty),    *)
(* lets json.dump write the record chunk by chunk, and closes it.  The     *)
(* process may die at any point of the save; the next start of the engine  *)
(* loads the file.                                                         *)
(***************************************************************************)
\* the positions the handlers of this specification store
StorePositions ==
    { [world |-> "world-1-basics", level |-> "level-2-x"],
      [world |-> "world-4-storage", level |-> "level-31-e"] }

StoreInit ==
    /\ disk \in InitFiles \cup {NoFile, LegacyFile}
    /\ progress = load_progress(disk)
    /\ pc = "store_ready"
    /\ previous = disk
    /\ RETRO_UI_ENABLED = TRUE
    /\ entry = "none"
    /\ mode = "world"
    /\ world_index = 0
    /\ world_name = None
    /\ levels = << >>
    /\ start_index = 0
    /\ level_index = 0
    /\ level_choices = << >>
    /\ level_name = None
    /\ current_hint_level = -1
    /\ attempts = -1
    /\ celebrated = "none"
    /\ shown = Show("welcome", 0)
    /\ exit_by = "running"
    /\ sessions = 0
    /\ crash = NoCrash
    /\ dirs = << >>
    /\ returned = "none"
    /\ resource_index = 0
    /\ status_parts = << >>
    /\ status_table = NoRows
    /\ pending_input = "none"

\* what the store specification leaves alone
storeRest ==
    << RETRO_UI_ENABLED, crash, pollFrame, monitorFrame, mainFrame, worldFrame, levelFrame,
       sessions >>

\* a handler sets the position (play_world, play_specific_level) or resets the
\* record (main, choice "3") and calls save_progress
StoreChange ==
    /\ pc = "store_ready"
    /\ \/ \E pos \in StorePositions :
             progress' = SetPosition(progress, pos.world, pos.level)
       \/ progress' = ResetProgress(progress)
    /\ previous' = disk
    /\ pc' = "save_progress"
    /\ UNCHANGED << disk, exit_by, storeRest >>

\* open(self.progress_file, "w"): the file is created or truncated
SaveOpen ==
    /\ pc = "save_progress"
    /\ disk' = Torn(progress, 0)
    /\ pc' = "save_dump"
    /\ UNCHANGED << progress, previous, exit_by, storeRest >>

\* json.dump writes the next chunk; after the last one the file is closed
SaveDump ==
    /\ pc = "save_dump"
    /\ LET k == Len(disk.torn) + 1
       IN  IF k < Len(Fields)
           THEN /\ disk' = Torn(progress, k)
                /\ pc' = "save_dump"
           ELSE /\ disk' = save_progress(progress)
                /\ pc' = "store_ready"
    /\ UNCHANGED << progress, previous, exit_by, storeRest >>

\* the process dies inside save_progress; progress keeps the record that was
\* being saved
Die ==
    /\ pc \in {"save_progress", "save_dump"}
    /\ pc' = "dead"
    /\ UNCHANGED << store, previous, exit_by, storeRest >>

\* the engine is started again: K8sQuest() calls load_progress, and an
\* exception of it ends the process with a traceback
Restart ==
    /\ pc = "dead"
    /\ IF load_progress(disk) = JSONDecodeError
       THEN /\ pc' = "exited"
            /\ exit_by' = "load_error"
            /\ UNCHANGED progress
       ELSE /\ progress' = load_progress(disk)
            /\ pc' = "store_ready"
            /\ UNCHANGED exit_by
    /\ UNCHANGED << disk, previous, storeRest >>

StoreNext == StoreChange \/ SaveOpen \/ SaveDump \/ Die \/ Restart

StoreSpec == StoreInit /\ [][StoreNext]_vars

(***************************************************************************)
(* get_resource_status on its own: one status poll queries the resource    *)
(* types in order, takes summaries from the first lines of each output and *)
(* stops when it has enough.                                               *)
(***************************************************************************)
resource_types ==
    << "pods", "deployments", "services", "ingress", "pvc", "configmaps" >>

\* the outputs of one kubectl get --no-headers: a list of lines, of each line
\* whether it splits into at least two parts
Outputs == UNION { [1..n -> BOOLEAN] : n \in 0..MaxLines }

RECURSIVE Summaries_all_lines(_, _)
\* summaries taken from every line of the output
Summaries_all_lines(resource_type, lines) ==
    IF lines = << >> THEN << >>
    ELSE Summaries_all_lines(resource_type, SubSeq(lines, 1, Len(lines) - 1))
         \o (IF lines[Len(lines)]
             THEN << [type |-> resource_type, line |-> Len(lines)] >>
             ELSE << >>)

RECURSIVE Summaries(_, _)
\* for line in lines[:2]: a summary of each line with at least two parts
Summaries(resource_type, lines) ==
    IF Len(lines) > MaxPerType
    THEN Summaries(resource_type, SubSeq(lines, 1, MaxPerType))
    ELSE IF lines = << >> THEN << >>
    ELSE Summaries(resource_type, SubSeq(lines, 1, Len(lines) - 1))
         \o (IF lines[Len(lines)]
             THEN << [type |-> resource_type, line |-> Len(lines)] >>
             ELSE << >>)

\* " | ".join(status_parts[:3]), or "No resources found"
StatusText(parts) ==
    IF parts # << >>
    THEN [kind |-> "status", parts |-> SubSeq(parts, 1, Min(MaxSummaries, Len(parts)))]
    ELSE [kind |-> "No resources found", parts |-> << >>]

StatusInit ==
    /\ pc = "polling"
    /\ resource_index = 0
    /\ status_parts = << >>
    /\ status_table = NoRows
    /\ pending_input = "none"
    /\ shown = Show("monitoring", 0)
    /\ disk = NoFile
    /\ progress = load_progress(disk)
    /\ previous = NoFile
    /\ RETRO_UI_ENABLED = TRUE
    /\ entry = "none"
    /\ mode = "world"
    /\ world_index = 0
    /\ world_name = None
    /\ levels = << >>
    /\ start_index = 0
    /\ level_index = 0
    /\ level_choices = << >>
    /\ level_name = None
    /\ current_hint_level = -1
    /\ attempts = -1
    /\ celebrated = "none"
    /\ exit_by = "running"
    /\ sessions = 0
    /\ crash = NoCrash
    /\ dirs = << >>
    /\ returned = "none"

\* what the status poll leaves alone
statusRest ==
    << store, monitorFrame, RETRO_UI_ENABLED, crash, previous, mainFrame, worldFrame,
       level_name, current_hint_level, attempts, celebrated, returned, exit_by,
       sessions >>

\* one iteration of the loop over resource_types: the query (with timeout=3)
\* times out, cannot be launched, exits non-zero, or exits 0 with an output
QueryResource ==
    /\ pc = "polling"
    /\ resource_index < Len(resource_types)
    /\ resource_index' = resource_index + 1
    /\ \/ /\ pc' = "polled"
          /\ shown' = [kind |-> "Timeout", parts |-> << >>]
          /\ UNCHANGED status_parts
       \/ /\ pc' = "polled"
          /\ shown' = [kind |-> "Checking...", parts |-> << >>]
          /\ UNCHANGED status_parts
       \/ UNCHANGED << pc, shown, status_parts >>
       \/ \E lines \in Outputs :
             IF lines = << >>
             THEN UNCHANGED << pc, shown, status_parts >>
             ELSE /\ status_parts' =
                       status_parts
                       \o Summaries(resource_types[resource_index + 1], lines)
                  /\ IF Len(status_parts') >= MaxSummaries
                     THEN pc' = "polled" /\ shown' = StatusText(status_parts')
                     ELSE UNCHANGED << pc, shown >>
    /\ UNCHANGED statusRest

\* the loop is over: the status text is returned
ReturnStatus ==
    /\ pc = "polling"
    /\ resource_index = Len(resource_types)
    /\ pc' = "polled"
    /\ shown' = StatusText(status_parts)
    /\ UNCHANGED << pollFrame, statusRest >>

StatusNext == QueryResource \/ ReturnStatus

StatusSpec == StatusInit /\ [][StatusNext]_vars

(***************************************************************************)
(* monitor_status, step by step: the check action of a level session polls *)
(* the status duration times, adds a row to the status table for each poll *)
(* and returns to the prompt of the play loop.  The player may type while  *)
(* the loop runs; what is typed waits for the next prompt.                 *)
(***************************************************************************)
\* def monitor_status(self, level_name, duration=10)
duration == 10

NeutralLines == {"Timeout", "Checking..."}

MonitorPcs == {"polling", "polled", "monitored"}

MonitorInit ==
    /\ pc = "interacting"
    /\ resource_index = 0
    /\ status_parts = << >>
    /\ status_table = NoRows
    /\ pending_input = "none"
    /\ shown = Show("mission", 0)
    /\ disk = File(1, "world-1-basics", "level-2-x")
    /\ progress = load_progress(disk)
    /\ previous = NoFile
    /\ RETRO_UI_ENABLED = TRUE
    /\ entry = "continue"
    /\ mode = "world"
    /\ world_index = 0
    /\ world_name = "world-1-basics"
    /\ dirs = ListDir["world-1-basics"]
    /\ levels = SortedByKey(dirs)
    /\ start_index = 1
    /\ level_index = 1
    /\ level_choices = << >>
    /\ level_name = "level-2-x"
    /\ current_hint_level = 0
    /\ attempts \in 0..1
    /\ celebrated = "none"
    /\ exit_by = "running"
    /\ sessions = 1
    /\ crash = NoCrash
    /\ returned = "none"

\* what monitor_status leaves alone
monitorRest ==
    << store, RETRO_UI_ENABLED, crash, previous, mainFrame, worldFrame,
       level_name, current_hint_level, attempts, celebrated, returned, exit_by,
       sessions >>

\* the prompt of the play loop reads "check": monitor_status makes an empty
\* table and enters its loop
MonitorStart ==
    /\ pc = "interacting"
    /\ pending_input = "none"
    /\ pc' = "polling"
    /\ status_table' = NoRows
    /\ resource_index' = 0
    /\ status_parts' = << >>
    /\ shown' = Show("monitoring", 0)
    /\ UNCHANGED << pending_input, monitorRest >>

\* status_table.add_row(..., status); time.sleep(1); the next iteration of
\* for i in range(duration) calls get_resource_status again
AddRow_stops_on_error ==
    /\ pc = "polled"
    /\ status_table' =
          [ rows    |-> status_table.rows + 1,
            neutral |-> status_table.neutral
                        + (IF shown.kind \in NeutralLines THEN 1 ELSE 0) ]
    /\ pc' = IF status_table'.rows < duration /\ shown.kind \notin NeutralLines
             THEN "polling" ELSE "monitored"
    /\ resource_index' = 0
    /\ status_parts' = << >>
    /\ shown' = Show("row", 0)
    /\ UNCHANGED << pending_input, monitorRest >>

AddRow ==
    /\ pc = "polled"
    /\ status_table' =
          [ rows    |-> status_table.rows + 1,
            neutral |-> status_table.neutral
                        + (IF shown.kind \in NeutralLines THEN 1 ELSE 0) ]
    /\ pc' = IF status_table'.rows < duration THEN "polling" ELSE "monitored"
    /\ resource_index' = 0
    /\ status_parts' = << >>
    /\ shown' = Show("row", 0)
    /\ UNCHANGED << pending_input, monitorRest >>

\* the loop and the Live display end: play_level's loop prompts again
MonitorReturns ==
    /\ pc = "monitored"
    /\ pc' = "interacting"
    /\ shown' = Show("status", 0)
    /\ UNCHANGED << pollFrame, monitorFrame, monitorRest >>

\* the player types quit and Enter while monitor_status runs; nothing reads
\* the terminal until the next Prompt.ask
TypeQuit ==
    /\ pc \in MonitorPcs
    /\ pending_input = "none"
    /\ pending_input' = "quit"
    /\ UNCHANGED << pc, shown, pollFrame, status_table, monitorRest >>

\* Prompt.ask reads the line that was typed during the poll
ReadQuit ==
    /\ pending_input = "quit"
    /\ Quit

MonitorNext ==
    \/ MonitorStart
    \/ QueryResource
    \/ ReturnStatus
    \/ AddRow
    \/ MonitorReturns
    \/ TypeQuit
    \/ ReadQuit

MonitorSpec == MonitorInit /\ [][MonitorNext]_vars

(***************************************************************************)
(* Properties.                                                             *)
(***************************************************************************)
\* the step of a validation that passes / that fails
PassStep == pc = "interacting" /\ pc' = "confirm_next"
FailStep == pc = "interacting" /\ pc' = "confirm_retry"

\* the last element of a non-empty list
Last(seq) == seq[Len(seq)]

\* C1: a validation pass on a level that is already in completed_levels
\* leaves total_xp unchanged; a pass on a level that is not yet in it adds the
\* level's XP.
C1_IdempotentCrediting ==
    [][PassStep =>
         IF Contains(progress.completed_levels, level_name)
         THEN progress'.total_xp = progress.total_xp
         ELSE progress'.total_xp = progress.total_xp + MissionXp(level_name)]_vars

\* C2: a failed validation never lowers the hint tier and never lifts it above
\* min(number of hint files of the level, 3): from a tier within that limit it
\* leads to a tier within that limit.
C2_FailuresKeepTierWithinHints ==
    [][(FailStep /\ current_hint_level <= Min(HintFiles(level_name), 3)) =>
         /\ current_hint_level' >= current_hint_level
         /\ current_hint_level' <= Min(HintFiles(level_name), 3)]_vars

\* C3: after a validation that exits 0 the session is resolved as passed and
\* the progress file holds the level exactly once in completed_levels.
C3_PassPersistsLevelOnce ==
    pc = "confirm_next" =>
        /\ shown = Show("mission_complete", 0)
        /\ disk # NoFile
        /\ Count(disk.completed_levels, level_name) = 1

\* C3, witness: a pass of a level that was completed before the session (it is
\* not the entry appended last).
C3_Witness ==
    /\ pc = "confirm_next"
    /\ Count(disk.completed_levels, level_name) = 1
    /\ Last(disk.completed_levels) # level_name

C5_ResumeIndex ==
    /\ (pc = "level_loop" /\ level_index = start_index) =>
          \A k \in 1..Len(levels) :
             levels[k] = progress.current_level =>
                start_index =
                   IF Contains(progress.completed_levels, progress.current_level)
                   THEN k ELSE k - 1
    /\ (pc \in SessionPcs /\ mode = "world") =>
          /\ level_index >= start_index
          /\ level_name = levels[level_index + 1]

\* C5, witness: level-2-x is completed and stored as current_level, and the
\* first session of the run plays the level after it.
C5_Witness ==
    /\ pc = "interacting"
    /\ entry = "continue"
    /\ sessions = 1
    /\ start_index = 2
    /\ level_index = start_index
    /\ level_name = "level-10-y"
    /\ Contains(progress.completed_levels, "level-2-x")

\* C6: when current_level is set and not in the level list of the world,
\* play_world goes on to its loop (it does not fail) and resumes at the first
\* level of the world.
C6_StaleResume ==
    (/\ pc = "level_loop"
     /\ level_index = start_index
     /\ Truthy(progress.current_level)
     /\ ~Contains(levels, progress.current_level)) =>
        /\ start_index = 0
        /\ level_index < Len(levels)

\* C6, witness: the stored level is in no world; the loop is at the first level.
C6_Witness ==
    /\ pc = "level_loop"
    /\ progress.current_level = "level-7-old"
    /\ start_index = 0
    /\ level_index = 0
    /\ levels[1] = "level-1-z"

\* the number n of a directory name level-<n>-<name>
LevelNumber(name) ==
    ToInt(TakeRun(SubSeq(Chars[name], Len(LevelPrefix) + 1, Len(Chars[name])), TRUE))

\* C7: the sorted list holds the listed directories, and a level with a
\* smaller number stands before every level with a larger number.
C7_NaturalOrder ==
    pc = "sorted" =>
        /\ Len(levels) = Len(dirs)
        /\ \A i \in 1..Len(dirs) : Contains(levels, dirs[i])
        /\ \A i, j \in 1..Len(levels) :
              LevelNumber(levels[i]) < LevelNumber(levels[j]) => i < j

\* C7, witness: level-2-x, level-10-y, level-1-z are sorted.
C7_Witness ==
    /\ pc = "sorted"
    /\ dirs = << "level-2-x", "level-10-y", "level-1-z" >>
    /\ levels = << "level-1-z", "level-2-x", "level-10-y" >>

\* C8: with the retro UI, a validation pass fires world_complete exactly when
\* it raises the number of completed levels from 9 to 10.
C8_MilestoneOncePerCrossing ==
    [][(RETRO_UI_ENABLED /\ PassStep) =>
         ((celebrated' = "world_complete") <=>
             /\ Len(progress.completed_levels) = 9
             /\ Len(progress'.completed_levels) = 10)]_vars

\* C9: all through a level session, and after quit, the progress file names
\* the level and the world of the session.
C9_QuitKeepsPosition ==
    (pc \in SessionPcs \/ exit_by = "quit") =>
        /\ disk # NoFile
        /\ disk.current_level = level_name
        /\ disk.current_world = world_name

\* C9, witness: quit in a session entered by selecting a level of another
\* world than the stored one.
C9_Witness ==
    /\ exit_by = "quit"
    /\ entry = "specific"
    /\ mode = "specific"
    /\ level_name = "level-31-e"
    /\ disk.current_world = "world-4-storage"

\* the first session of a run that continues after a crash inside a session
\* that had not passed
ResumedAfterCrash ==
    /\ crash.level # None
    /\ ~crash.resolved
    /\ entry = "continue"
    /\ sessions = crash.sessions + 1
    /\ pc \in SessionPcs

\* C10 as claimed: after a crash inside a session, continue starts its first
\* session at the level of that session.
C10_CrashResumesSameLevel == ResumedAfterCrash => level_name = crash.level

\* C10 as amended: after a crash inside a session of a level that is not in
\* completed_levels, continue starts its first session at that level of that
\* world; after a crash inside a session of a level that is in
\* completed_levels, it starts at another level.
C10_CrashResumesUncompletedLevel ==
    ResumedAfterCrash =>
        IF crash.completed
        THEN level_name # crash.level
        ELSE level_name = crash.level /\ world_name = crash.world

\* C10, witness: the run after a crash in a selected level that is not
\* completed plays that level again.
C10_Witness ==
    /\ ResumedAfterCrash
    /\ ~crash.completed
    /\ crash.level = "level-31-e"
    /\ level_name = "level-31-e"
    /\ attempts = 1

\* C11: when the process dies during a save, the progress file is the
\* complete record it held before the save or the complete new record.
C11_SaveAtomic ==
    pc = "dead" => disk \in {previous, save_progress(progress)}

\* C12: load_progress does not fail: a start of the engine always loads a
\* record, and from a file that is not a valid record it loads the default
\* record.
C12_LoadNeverFails ==
    [][pc = "dead" =>
         /\ pc' = "store_ready"
         /\ "torn" \in DOMAIN disk => progress' = DefaultProgress]_vars

\* C13: when the process has exited by the end of main, by quit or by an
\* interrupt, the record of the progress file is the record in memory.
C13_ExitSavesMemory ==
    (pc = "exited" /\ exit_by \in {"end", "quit", "interrupt"}) =>
        load_progress(disk) = progress

\* C14: within a level session no step lowers the hint tier.
C14_TierNeverDecreases ==
    [][(pc \in SessionPcs /\ pc' \in SessionPcs /\ sessions' = sessions) =>
         current_hint_level' >= current_hint_level]_vars

\* C15: a hints request moves the tier to min(tier + 1, number of hint files of
\* the level) and, once the tier is that number, shows the all-unlocked or
\* no-hints message and leaves the tier as it is.
C15_HintsCappedByHintFiles ==
    [][(/\ pc = "interacting"
        /\ pc' = "interacting"
        /\ shown'.kind \in {"hint", "all_unlocked", "no_hints"}) =>
         /\ current_hint_level' = Min(current_hint_level + 1, HintFiles(level_name))
         /\ current_hint_level >= HintFiles(level_name) =>
               shown'.kind \in {"all_unlocked", "no_hints"}]_vars

\* C16: the deployment of a session that starts always leads to the action
\* prompt, whether its commands exit with 0, exit with another code or cannot
\* be launched.
C16_DeployReachesInteracting ==
    [][(sessions' = sessions + 1 /\ pc' # "deploying") =>
         /\ pc' = "interacting"
         /\ current_hint_level' = 0
         /\ attempts' = 0]_vars

\* C17: no validation ends the process with an exception; a validation whose
\* command fails leaves the session at the "Try again?" question of the level.
C17_ValidationNeverRaises ==
    /\ exit_by # "validate_error"
    /\ pc = "confirm_retry" => shown = Show("not_quite", 0)

\* C18: a deploy or validate step that waits for an external command always
\* gets control back in the end.
C18_ExternalCallsReturn ==
    (pc \in {"deploying", "validating"}) ~> (pc \notin {"deploying", "validating"})

\* C19: a skip that is confirmed ends the session with neither the record nor
\* the file changed (the level is not added, total_xp is as it was) and
\* play_world goes on to the next level of its list (play_specific_level shows
\* its menu); a skip that is declined leads back to the action prompt with
\* nothing changed.  A session of play_world plays the level at its loop index.
C19_SkipResolvesWithoutCredit ==
    [][/\ pc = "confirm_skip" =>
            \/ /\ pc' = "interacting"
               /\ UNCHANGED << progress, disk, level_name, current_hint_level,
                               attempts, level_index, sessions >>
            \/ /\ returned' = "True"
               /\ UNCHANGED << progress, disk, levels >>
               /\ mode = "world" =>
                     pc' = "level_loop" /\ level_index' = level_index + 1
               /\ mode = "specific" => pc' = "post_level"
       /\ (pc' \in SessionPcs /\ mode' = "world") =>
            level_name' = levels'[level_index' + 1]]_vars

\* C19, witness: the first level of a fresh campaign was skipped and the
\* session of the second level has started with nothing credited.
C19_Witness ==
    /\ pc = "interacting"
    /\ mode = "world"
    /\ entry = "fresh"
    /\ sessions = 2
    /\ level_index = 1
    /\ level_name = "level-2-x"
    /\ progress.completed_levels = << >>
    /\ progress.total_xp = 0
    /\ disk.total_xp = 0

\* C20: play_level reports a pass whose proceed question is answered no as
\* resolved (True), and a failure whose retry question is answered no as not
\* resolved (False).
C20_PassDeclinedReportsResolved ==
    [][/\ pc = "confirm_next" => returned' = "True"
       /\ (pc = "confirm_retry" /\ pc' # "interacting") => returned' = "False"]_vars

\* C21: quit at the action prompt ends the process at once with exit status 0,
\* in a session of play_world as in a session of a selected level, and after it
\* nothing happens any more: no level session starts.
C21_QuitEndsCampaign ==
    [][/\ (pc = "interacting" /\ exit_by' = "quit") =>
            /\ pc' = "exited"
            /\ ExitStatus(exit_by') = 0
            /\ sessions' = sessions
       /\ exit_by = "quit" => (pc' = "exited" /\ sessions' = sessions)
       /\ pc # "exited" => exit_by = "running"]_vars

\* C21, witness: quit in the first session, entered by selecting a level, with
\* further levels and worlds left to play.
C21_Witness ==
    /\ pc = "exited"
    /\ exit_by = "quit"
    /\ mode = "specific"
    /\ sessions = 1
    /\ level_name = "level-1-z"

\* C22: in a campaign that main drives (continue, restart or fresh start), the
\* answer no to "Ready for the next challenge?" after a pass ends the process:
\* play_world returns False, main leaves its loop over the worlds, and no
\* level session starts after it.
C22_DeclineStopsCampaign ==
    [][/\ (/\ pc = "confirm_next"
           /\ entry \in {"continue", "restart", "fresh"}
           /\ returned' = "False") =>
            /\ pc' = "exited"
            /\ exit_by' = "end"
            /\ sessions' = sessions
       /\ pc = "exited" => (pc' = "exited" /\ sessions' = sessions)]_vars

\* C22, witness: a fresh campaign ended when the player declined after passing
\* the first level of the first world.
C22_Witness ==
    /\ pc = "exited"
    /\ exit_by = "end"
    /\ entry = "fresh"
    /\ returned = "False"
    /\ sessions = 1
    /\ world_index = 0
    /\ level_name = "level-1-z"
    /\ progress.completed_levels = << "level-1-z" >>

\* no entry of the list occurs twice
NoDuplicates(seq) == \A i, j \in 1..Len(seq) : seq[i] = seq[j] => i = j

\* C23: from a progress file without duplicates, completed_levels never holds
\* a level twice, in memory or in the file, whatever passes, skips, failures,
\* restarts and re-plays of completed levels happen.
C23_NoDuplicateCompletions ==
    /\ NoDuplicates(progress.completed_levels)
    /\ disk # NoFile => NoDuplicates(disk.completed_levels)

\* C23, witness: a completed level was played and passed again (its XP was
\* added a second time) and the list holds it once.
C23_Witness ==
    /\ pc = "confirm_next"
    /\ mode = "specific"
    /\ Len(progress.completed_levels) = 2
    /\ Count(progress.completed_levels, level_name) = 1
    /\ progress.completed_levels[1] = level_name
    /\ progress.total_xp = SumXp(progress.completed_levels) + MissionXp(level_name)

\* C24: total_xp is never negative and no step lowers it, in memory or in the
\* file, except "start from the beginning" of the menu, which sets it to 0.
C24_XpMonotone ==
    [][/\ progress'.total_xp >= 0
       /\ \/ progress'.total_xp >= progress.total_xp
          \/ /\ pc = "menu"
             /\ entry' = "restart"
             /\ progress'.total_xp = 0
       /\ (disk # NoFile /\ ~(pc = "menu" /\ entry' = "restart")) =>
             disk'.total_xp >= disk.total_xp]_vars

\* C24, witness: the record was reset from the menu and the first level was
\* passed after it.
C24_Witness ==
    /\ entry = "restart"
    /\ pc = "confirm_next"
    /\ sessions = 1
    /\ progress.total_xp = MissionXp("level-1-z")
    /\ progress.completed_levels = << "level-1-z" >>

\* where the engine waits for the player: a menu choice, the action prompt or
\* a confirmation
InputPcs ==
    {"menu", "ready", "select", "post_level", "interacting", "confirm_next",
     "confirm_retry", "confirm_skip"}

\* C25: whenever the engine waits for input, the record of the progress file
\* (as load_progress reads it) is the record in memory: every change of the
\* record was saved before the next prompt.
C25_SavedAtEveryPrompt ==
    pc \in InputPcs => load_progress(disk) = progress

\* C25, witness: the proceed question after the second pass of a campaign that
\* was started from the beginning: reset, position and completions are saved.
C25_Witness ==
    /\ pc = "confirm_next"
    /\ entry = "restart"
    /\ sessions = 2
    /\ Len(progress.completed_levels) = 2
    /\ progress.current_level = "level-2-x"
    /\ disk = progress

\* C26: a level session that starts at the action prompt starts with hint
\* tier 0 and attempt counter 0, whatever sessions came before it in the run.
C26_SessionStartsAtZero ==
    [][(sessions' = sessions + 1 /\ pc' = "interacting") =>
         /\ current_hint_level' = 0
         /\ attempts' = 0]_vars

\* C26, witness: the second session of a run is a session of level-1-z again,
\* after a first session of it that ended with a pass (an attempt was made:
\* its XP was added once more), and it starts at 0 and 0.
C26_Witness ==
    /\ pc = "interacting"
    /\ sessions = 2
    /\ mode = "specific"
    /\ level_name = "level-1-z"
    /\ progress.completed_levels = << "level-1-z" >>
    /\ progress.total_xp = 2 * MissionXp("level-1-z")
    /\ current_hint_level = 0
    /\ attempts = 0

\* C27: inside a session a validation, passed or failed, adds exactly one to
\* the attempt counter and no other step changes it, so the counter is the
\* number of validate actions of the session.
C27_AttemptsCountValidations ==
    [][(pc \in SessionPcs /\ pc' \in SessionPcs /\ sessions' = sessions) =>
         attempts' = IF PassStep \/ FailStep THEN attempts + 1 ELSE attempts]_vars

\* C27, witness: a failed validation, a hint, then a passed validation.
C27_Witness ==
    /\ pc = "confirm_next"
    /\ attempts = 2
    /\ current_hint_level = 2

\* C28: check, guide and solution show something and go back to the action
\* prompt with hint tier, attempt counter, record and file as they were.
C28_DisplayOnly ==
    [][(/\ pc = "interacting"
        /\ shown' # shown
        /\ shown'.kind \in {"status", "guide", "solution"}) =>
         /\ pc' = "interacting"
         /\ UNCHANGED << current_hint_level, attempts, progress, disk, level_name,
                         sessions >>]_vars

\* C28, witness: the solution is shown in a session that has a hint unlocked
\* and an attempt counted.
C28_Witness ==
    /\ pc = "interacting"
    /\ shown = Show("solution", 0)
    /\ current_hint_level = 2
    /\ attempts = 1

\* C29: total_xp and completed_levels, in memory and in the file, change only
\* in a validation pass and in "start from the beginning": no other step
\* (hints, a failed validation and its answer, skip and its answer, quit)
\* changes either.
C29_CreditOnlyOnPass ==
    [][(\/ progress'.total_xp # progress.total_xp
        \/ progress'.completed_levels # progress.completed_levels
        \/ load_progress(disk').total_xp # load_progress(disk).total_xp
        \/ load_progress(disk').completed_levels
              # load_progress(disk).completed_levels) =>
         \/ PassStep
         \/ pc = "menu" /\ entry' = "restart"]_vars

\* C29, witness: in a fresh campaign the first level was skipped, and in the
\* second a hint was asked for and a validation failed; nothing is credited.
C29_Witness ==
    /\ entry = "fresh"
    /\ sessions = 2
    /\ pc = "confirm_retry"
    /\ current_hint_level = 2
    /\ attempts = 1
    /\ progress.total_xp = 0
    /\ progress.completed_levels = << >>
    /\ disk.total_xp = 0
    /\ disk.completed_levels = << >>

\* C30: the status that one poll returns holds at most 3 summaries and at most
\* 2 of any resource type, and once 3 or more summaries are collected no
\* further resource type is queried.
C30_StatusPollLimits ==
    [][/\ (pc' = "polled" /\ shown'.kind = "status") =>
            /\ Len(shown'.parts) <= 3
            /\ \A t \in 1..Len(resource_types) :
                  Cardinality({ i \in 1..Len(shown'.parts) :
                                  shown'.parts[i].type = resource_types[t] }) <= 2
       /\ Len(status_parts) >= 3 => resource_index' = resource_index]_vars

\* C30, witness: two resource types gave two summaries each: four are
\* collected, three are reported, and four resource types were not queried.
C30_Witness ==
    /\ pc = "polled"
    /\ resource_index = 2
    /\ Len(status_parts) = 4
    /\ shown.kind = "status"
    /\ Len(shown.parts) = 3


\* C31: while the check action polls, a poll that errors or times out yields
\* a neutral status line, which becomes a row like any other; the loop ends
\* only after all its iterations, returns to the prompt of the play loop, no
\* error ends the process, and the record, the attempt counter and the hint
\* tier are left as they were.
C31_PollErrorsAreNeutral ==
    [][ /\ pc \in MonitorPcs =>
             /\ exit_by' = "running"
             /\ UNCHANGED << store, level_name, attempts, current_hint_level,
                             sessions, level_index >>
        /\ (pc = "polling" /\ pc' = "polled" /\ Len(status_parts') < MaxSummaries
              /\ resource_index' < Len(resource_types)) =>
             shown'.kind \in NeutralLines
        /\ (pc = "polled" /\ pc' # "polled") =>
             /\ status_table'.rows = status_table.rows + 1
             /\ pc' = IF status_table'.rows < duration
                      THEN "polling" ELSE "monitored"
        /\ pc = "monitored" =>
             /\ status_table.rows = duration
             /\ pc' \in {"monitored", "interacting"} ]_vars

C31_Witness ==
    /\ pc = "interacting"
    /\ shown = Show("status", 0)
    /\ status_table.rows = duration
    /\ status_table.neutral = 2
    /\ exit_by = "running"

\* C32: once the player has asked to quit while the status poll runs, the
\* loop of monitor_status starts no further iteration.
C32_QuitHonoredMidPoll ==
    [][ (pending_input = "quit" /\ pc = "polled") => pc' # "polling" ]_vars


\* the place of a level in the catalog: world order, then natural level order
CatalogPlace(level) ==
    CHOOSE i \in 1..Len(CampaignOrder) : CampaignOrder[i] = level

\* C33: in a campaign entered by continue, restart or a fresh start, each
\* level session after the first is the session of the next level of the
\* catalog, across world boundaries too; the first session is the first level
\* after a restart or a fresh start, and after continue it is the stored level
\* of the stored world, or the level after it when the stored level is
\* completed, be it the last of its world.
C33_CatalogOrder ==
    [][ (sessions' = sessions + 1 /\ entry \in {"continue", "restart", "fresh"}) =>
           /\ Contains(CampaignOrder, level_name')
           /\ sessions >= 1 =>
                 CatalogPlace(level_name') = CatalogPlace(level_name) + 1
           /\ (sessions = 0 /\ entry \in {"restart", "fresh"}) =>
                 CatalogPlace(level_name') = 1
           /\ (/\ sessions = 0
               /\ entry = "continue"
               /\ WorldExists(progress.current_world)
               /\ Contains(ListDir[progress.current_world], progress.current_level)) =>
                 CatalogPlace(level_name') =
                    CatalogPlace(progress.current_level)
                    + (IF Contains(progress.completed_levels, progress.current_level)
                       THEN 1 ELSE 0) ]_vars

\* C33, witness: the run resumed at level-10-y, the last level of the first
\* world, and its second session is the first level of the second world.
C33_Witness ==
    /\ pc = "interacting"
    /\ entry = "continue"
    /\ sessions = 2
    /\ world_index = 1
    /\ level_name = "level-11-a"
    /\ progress.completed_levels = FirstLevels(3)

\* C34: start from the beginning sets total_xp to 0, completed_levels to
\* empty and current_level to None, keeps player_name and writes that record
\* to the file before a session starts; the first session after it is the
\* first level of the first world.
C34_RestartFromBeginning ==
    [][ /\ (pc = "menu" /\ entry' = "restart") =>
             /\ progress'.total_xp = 0
             /\ progress'.completed_levels = << >>
             /\ progress'.current_level = None
             /\ progress'.player_name = progress.player_name
             /\ disk' = progress'
             /\ sessions = 0
             /\ sessions' = 0
        /\ (entry = "restart" /\ sessions = 0 /\ sessions' = 1) =>
             /\ world_name' = all_worlds[1]
             /\ level_name' = SortedByKey(ListDir[all_worlds[1]])[1]
             /\ progress.completed_levels = << >>
             /\ progress.total_xp = 0 ]_vars

\* C34, witness: a player at the tenth level started from the beginning and
\* is in the session of the first level.
C34_Witness ==
    /\ pc = "interacting"
    /\ entry = "restart"
    /\ sessions = 1
    /\ level_name = "level-1-z"
    /\ world_name = "world-1-basics"
    /\ progress.total_xp = 0
    /\ progress.completed_levels = << >>
    /\ progress.player_name = "Ada"
    /\ disk = progress

\* C35: when the stored current_world is none of all_worlds, continue goes
\* on to play_world with the first world, and the process does not end.
C35_UnknownWorldContinue ==
    [][ (/\ pc = "menu"
         /\ entry' = "continue"
         /\ \A i \in 1..Len(all_worlds) : all_worlds[i] # progress.current_world) =>
           /\ world_index' = 0
           /\ pc' = "play_world"
           /\ exit_by' = "running" ]_vars

\* C35, witness: the stored world is unknown and play_world is about to be
\* called with the first world.
C35_Witness ==
    /\ pc = "play_world"
    /\ entry = "continue"
    /\ progress.current_world = "world-9-retired"
    /\ all_worlds[world_index + 1] = "world-1-basics"

\* C36: for a progress file written by save_progress, the number of levels
\* the progress tracker reports as completed is the length of
\* completed_levels.
C36_TrackerAgrees ==
    (sessions >= 1 /\ disk = save_progress(progress)) =>
        tracker_levels_completed(disk) = Len(disk.completed_levels)

====
